---- MODULE Spec2Model ----
(***************************************************************************)
(* Two stand-alone address-translation programs:                           *)
(*   "PAG"     src/Memoria_Virtual_PAG.c  three-level decomposition of a   *)
(*             virtual address plus the average access-time formula;       *)
(*   "Virtual" src/Pag_Virtual.c          page number / offset split and   *)
(*             lookup in the fixed 8-entry page table.                     *)
(* A behaviour is one run of one of the programs on one text typed on      *)
(* standard input.                                                         *)
(*                                                                         *)
(* An unsigned 32-bit value is a function from bit positions 0..31 to      *)
(* {0,1}: TLC's integers stop at 2^31-1, the programs' words do not.       *)
(* Signed ints of the programs (page numbers, offsets, frames, physical    *)
(* addresses) stay far below 2^31 and are plain integers.                  *)
(***************************************************************************)
EXTENDS Integers, Sequences, FiniteSets, TLC

VARIABLES
    prog,              \* which program this run executes
    stdin,             \* the text typed by the user, a sequence of characters
    pc,                \* position of main
    scan_ret,          \* value returned by scanf (main ignores it)
    virtual_address,   \* main's local: the word scanf stores into
    addr,              \* PAG main: the VirtualAddress struct
    access_time,       \* PAG main: result of calculate_memory_access_time, in tenths of ns
    page_number,       \* Virtual: local of get_physical_address
    offset,            \* Virtual: local of get_physical_address
    table_reads,       \* Virtual: the indices at which page_table was read
    physical_address,  \* Virtual main: value returned by get_physical_address
    out,               \* lines written to standard output
    exit_status        \* <<>> while running, <<status>> once main returned

vars == <<prog, stdin, pc, scan_ret, virtual_address, addr, access_time,
          page_number, offset, table_reads, physical_address, out, exit_status>>

(***************************************************************************)
(* Bounds and program constants                                            *)
(***************************************************************************)
\* longest run of hexadecimal digits typed (9 digits = 36 bits)
MaxDigits == 9

\* width of unsigned int / uint32_t
WordBits == 32

\* #define PAGE_SIZE (1 << 12)
PageShift == 12
PAGE_SIZE == 2 ^ PageShift

VIRTUAL_ADDRESS_BITS == 32
PHYSICAL_ADDRESS_BITS == 21
TLB_HIT_TIME == 8
MEMORY_ACCESS_TIME == 70
\* #define TLB_HIT_RATE 0.9, as a number of tenths
TLB_HIT_RATE_TENTHS == 9
\* the literal 3 of calculate_memory_access_time: levels of page tables
TABLE_LEVELS == 3

(***************************************************************************)
(* 32-bit words                                                            *)
(***************************************************************************)
BitPos == 0 .. (WordBits - 1)
Word == [BitPos -> {0, 1}]

\* the word of a non-negative int constant (n < 2^31, so bit 31 is clear)
NatToWord(n) == [i \in BitPos |-> IF i < 31 THEN (n \div (2 ^ i)) % 2 ELSE 0]

Shr(w, k) == [i \in BitPos |-> IF i + k < WordBits THEN w[i + k] ELSE 0]
Shl(w, k) == [i \in BitPos |-> IF i >= k THEN w[i - k] ELSE 0]
BitAnd(a, b) == [i \in BitPos |-> a[i] * b[i]]
BitOr(a, b) == [i \in BitPos |-> IF a[i] = 1 \/ b[i] = 1 THEN 1 ELSE 0]

RECURSIVE SumBits(_, _)
SumBits(w, i) ==
    IF i < 0 THEN 0
    ELSE (IF w[i] = 1 THEN 2 ^ i ELSE 0) + SumBits(w, i - 1)

\* conversion of a word to int; used on masked words only
ToNat(w) == SumBits(w, WordBits - 1)

UINT_MAX == [i \in BitPos |-> 1]

(***************************************************************************)
(* scanf("%x", &virtual_address)                                           *)
(***************************************************************************)
\* the value of each hexadecimal digit character
HexValue ==
    "0" :> 0 @@ "1" :> 1 @@ "2" :> 2 @@ "3" :> 3 @@ "4" :> 4 @@ "5" :> 5 @@
    "6" :> 6 @@ "7" :> 7 @@ "8" :> 8 @@ "9" :> 9 @@ "a" :> 10 @@ "b" :> 11 @@
    "c" :> 12 @@ "d" :> 13 @@ "e" :> 14 @@ "f" :> 15

IsHex(c) == c \in DOMAIN HexValue
DigitValue(c) == HexValue[c]

\* %x consumes the longest run of hexadecimal digits at the front of the text
RECURSIVE HexPrefixLen(_)
HexPrefixLen(text) ==
    IF text = <<>> \/ ~IsHex(Head(text)) THEN 0
    ELSE 1 + HexPrefixLen(Tail(text))

MatchedDigits(text) == SubSeq(text, 1, HexPrefixLen(text))

\* bit i of the number written by the digits ds (most significant digit first)
ValueBit(ds, i) ==
    IF i \div 4 < Len(ds)
    THEN (DigitValue(ds[Len(ds) - (i \div 4)]) \div (2 ^ (i % 4))) % 2
    ELSE 0

\* the number fits an unsigned int
Representable(ds) == \A i \in WordBits .. (4 * Len(ds) - 1) : ValueBit(ds, i) = 0

\* the low 32 bits of the number
LowWord(ds) == [i \in BitPos |-> ValueBit(ds, i)]

\* scanf's return value: EOF (-1) on empty input, 0 when nothing matches, else 1
ScanfReturn(text) ==
    IF text = <<>> THEN -1
    ELSE IF HexPrefixLen(text) = 0 THEN 0 ELSE 1

\* The words scanf may store.  A number that does not fit the object is
\* undefined behaviour (C11 7.21.6.2 p10); C libraries either keep the low 32
\* bits (conversion through a 64-bit unsigned long, or wrap-around
\* accumulation) or store the saturated strtoul result ULONG_MAX = 0xFFFFFFFF
\* (32-bit unsigned long).
ScanfStores(text) ==
    LET ds == MatchedDigits(text) IN
    IF Representable(ds) THEN {LowWord(ds)} ELSE {LowWord(ds), UINT_MAX}

(***************************************************************************)
(* Inputs                                                                  *)
(***************************************************************************)
OffsetTexts == {<<"0", "0", "0">>, <<"1", "2", "3">>, <<"f", "f", "f">>}

PageTexts ==
    {<<"0", d>> : d \in {"0", "1", "2", "3", "4", "5", "6", "7", "8"}}
        \cup {<<"1", "0">>, <<"f", "f">>}

\* choices for the k-th digit above bit 19 (k = 4 is bits 32..35)
HighChoices(k) ==
    CASE k = 1 -> {"0", "a"}
      [] k = 2 -> {"5"}
      [] k = 3 -> {"0", "f"}
      [] OTHER -> {"0", "1"}

RECURSIVE HighSeqs(_)
HighSeqs(n) ==
    IF n = 0 THEN {<<>>}
    ELSE {<<c>> \o s : c \in HighChoices(n), s \in HighSeqs(n - 1)}

HighTexts == UNION {HighSeqs(n) : n \in 0 .. (MaxDigits - 5)}

HexTexts == {h \o p \o o : h \in HighTexts, p \in PageTexts, o \in OffsetTexts}

OtherTexts ==
    {<<>>, <<"z">>, <<"x", "1", "2", "3">>, <<"7">>, <<"1", "2", "3">>,
     <<"2", "0", "0", "0">>, <<"5", "f", "f", "f", "h">>}

InputTexts == HexTexts \cup OtherTexts

\* what an uninitialised unsigned int on main's stack may hold
GarbageWords ==
    {LowWord(<<"0", "0", "0", "0", "4", "1", "2", "3">>),
     LowWord(<<"d", "e", "a", "d", "b", "e", "e", "f">>)}

(***************************************************************************)
(* Output lines                                                            *)
(***************************************************************************)
Line(tag, val) == [line |-> tag, val |-> val]
Lines(o) == {o[i].line : i \in 1 .. Len(o)}

(***************************************************************************)
(* Memoria_Virtual_PAG.c                                                   *)
(***************************************************************************)
decompose_address(va) ==
    [offset     |-> ToNat(BitAnd(va, NatToWord(2 ^ 12 - 1))),
     lvl3_index |-> ToNat(BitAnd(Shr(va, 12), NatToWord(255))),
     lvl2_index |-> ToNat(BitAnd(Shr(va, 20), NatToWord(255))),
     lvl1_index |-> ToNat(BitAnd(Shr(va, 28), NatToWord(15)))]

\* variant: the miss probability (1 - TLB_HIT_RATE) left out of the table walk
access_time_without_miss_rate ==
    (TLB_HIT_RATE_TENTHS * TLB_HIT_TIME)
        + 10 * (TABLE_LEVELS * MEMORY_ACCESS_TIME)
        + 10 * MEMORY_ACCESS_TIME

\* tenths of a nanosecond: every term of the C expression multiplied by 10
calculate_memory_access_time ==
    LET tlb_access_time == TLB_HIT_RATE_TENTHS * TLB_HIT_TIME
        page_table_access_time ==
            (10 - TLB_HIT_RATE_TENTHS) * (TABLE_LEVELS * MEMORY_ACCESS_TIME)
        memory_access_time == 10 * MEMORY_ACCESS_TIME
    IN  tlb_access_time + page_table_access_time + memory_access_time

(***************************************************************************)
(* Pag_Virtual.c                                                           *)
(***************************************************************************)
PageTableEntry(p, m, f) == [presence_bit |-> p, modified_bit |-> m, page_frame |-> f]

page_table ==
    <<PageTableEntry(1, 1, 0),
      PageTableEntry(0, 0, 8),
      PageTableEntry(1, 0, 9),
      PageTableEntry(1, 1, 14),
      PageTableEntry(1, 0, 3),
      PageTableEntry(1, 0, 7),
      PageTableEntry(0, 1, 25),
      PageTableEntry(0, 1, 16)>>

\* sizeof(page_table) / sizeof(PageTableEntry)
TableLength == Len(page_table)

\* what a read past the end of page_table may yield
StrayEntries == {PageTableEntry(1, 0, 0), PageTableEntry(0, 0, 0)}

\* variant: the offset masked with PAGE_SIZE, not PAGE_SIZE - 1
OffsetMaskPageSize(va) == ToNat(BitAnd(va, NatToWord(PAGE_SIZE)))

\* variant: the 12-bit offset mask applied to the page number
PageNumberWideMask(va) == ToNat(BitAnd(Shr(va, 12), NatToWord(PAGE_SIZE - 1)))

PageNumberOf(va) == ToNat(BitAnd(Shr(va, 12), NatToWord(255)))
OffsetOf(va) == ToNat(BitAnd(va, NatToWord(PAGE_SIZE - 1)))


\* variant: bounds test off by one
OutOfBoundsOffByOne(pn) == pn > TableLength
\* variant: the modified bit tested in place of the presence bit
InSwapModifiedBit(entry) == entry.modified_bit = 0
\* variant: the frame multiplied by the page shift, not the page size
FrameAddressTimesShift(entry, off) == (entry.page_frame * PageShift) + off
\* variant: address computed one byte low
FrameAddressOneLow(entry, off) == (entry.page_frame * PAGE_SIZE) + off - 1

OutOfBounds(pn) == pn >= TableLength
InSwap(entry) == entry.presence_bit = 0
FrameAddress(entry, off) == (entry.page_frame * PAGE_SIZE) + off

\* page_table[page_number]
TableRead(pn) == IF pn < TableLength THEN {page_table[pn + 1]} ELSE StrayEntries

\* The outcomes of one call: the locals, the table indices read, the lines
\* printed and the value returned.
get_physical_address(va) ==
    LET pn == PageNumberOf(va)
        off == OffsetOf(va)
    IN  IF OutOfBounds(pn)
        THEN {[page_number |-> pn, offset |-> off, reads |-> <<>>,
               printed |-> <<Line("fuera_de_limites", 0)>>, ret |-> -1]}
        ELSE {IF InSwap(entry)
              THEN [page_number |-> pn, offset |-> off, reads |-> <<pn>>,
                    printed |-> <<Line("en_swap", 0)>>, ret |-> -1]
              ELSE [page_number |-> pn, offset |-> off, reads |-> <<pn>>,
                    printed |-> <<>>, ret |-> FrameAddress(entry, off)]
              : entry \in TableRead(pn)}

\* variant: address 0 taken for a failure
PrintsAddressPositive(pa) == pa > 0

\* main's test before printing the physical address
PrintsAddress(pa) == pa # -1

(***************************************************************************)
(* Initial state: a program is started and a text is waiting on stdin.     *)
(***************************************************************************)
Init ==
    /\ prog \in {"PAG", "Virtual"}
    /\ stdin \in InputTexts
    /\ pc = "start"
    /\ scan_ret = 0
    /\ virtual_address \in GarbageWords
    /\ addr = [offset |-> 0, lvl3_index |-> 0, lvl2_index |-> 0, lvl1_index |-> 0]
    /\ access_time = 0
    /\ page_number = 0
    /\ offset = 0
    /\ table_reads = <<>>
    /\ physical_address = 0
    /\ out = <<>>
    /\ exit_status = <<>>

\* scanf("%x", &virtual_address): on a matching failure nothing is stored
Scan ==
    /\ scan_ret' = ScanfReturn(stdin)
    /\ IF ScanfReturn(stdin) = 1
       THEN virtual_address' \in ScanfStores(stdin)
       ELSE virtual_address' = virtual_address

(***************************************************************************)
(* main of Memoria_Virtual_PAG.c                                           *)
(***************************************************************************)
PagPrompt ==
    /\ prog = "PAG" /\ pc = "start"
    /\ out' = Append(out, Line("ingrese", 0))
    /\ pc' = "scanf"
    /\ UNCHANGED <<prog, stdin, scan_ret, virtual_address, addr, access_time,
                   page_number, offset, table_reads, physical_address, exit_status>>

PagScanf ==
    /\ prog = "PAG" /\ pc = "scanf"
    /\ Scan
    /\ pc' = "decompose"
    /\ UNCHANGED <<prog, stdin, addr, access_time, page_number, offset,
                   table_reads, physical_address, out, exit_status>>

PagDecompose ==
    /\ prog = "PAG" /\ pc = "decompose"
    /\ addr' = decompose_address(virtual_address)
    /\ pc' = "print_fields"
    /\ UNCHANGED <<prog, stdin, scan_ret, virtual_address, access_time, page_number,
                   offset, table_reads, physical_address, out, exit_status>>

PagPrintFields ==
    /\ prog = "PAG" /\ pc = "print_fields"
    /\ out' = out \o <<Line("descomposicion", 0),
                       Line("nivel1", addr.lvl1_index),
                       Line("nivel2", addr.lvl2_index),
                       Line("nivel3", addr.lvl3_index),
                       Line("offset", addr.offset)>>
    /\ pc' = "access_time"
    /\ UNCHANGED <<prog, stdin, scan_ret, virtual_address, addr, access_time,
                   page_number, offset, table_reads, physical_address, exit_status>>

PagAccessTime ==
    /\ prog = "PAG" /\ pc = "access_time"
    /\ access_time' = calculate_memory_access_time
    /\ out' = Append(out, Line("tiempo", calculate_memory_access_time))
    /\ pc' = "return"
    /\ UNCHANGED <<prog, stdin, scan_ret, virtual_address, addr, page_number,
                   offset, table_reads, physical_address, exit_status>>

PagReturn ==
    /\ prog = "PAG" /\ pc = "return"
    /\ exit_status' = <<0>>
    /\ pc' = "done"
    /\ UNCHANGED <<prog, stdin, scan_ret, virtual_address, addr, access_time,
                   page_number, offset, table_reads, physical_address, out>>

(***************************************************************************)
(* main of Pag_Virtual.c                                                   *)
(***************************************************************************)
VirtPrompt ==
    /\ prog = "Virtual" /\ pc = "start"
    /\ out' = out \o <<Line("formato", 0), Line("formato_pagina", 0),
                       Line("formato_offset", 0), Line("ingrese", 0)>>
    /\ pc' = "scanf"
    /\ UNCHANGED <<prog, stdin, scan_ret, virtual_address, addr, access_time,
                   page_number, offset, table_reads, physical_address, exit_status>>

VirtScanf ==
    /\ prog = "Virtual" /\ pc = "scanf"
    /\ Scan
    /\ pc' = "translate"
    /\ UNCHANGED <<prog, stdin, addr, access_time, page_number, offset,
                   table_reads, physical_address, out, exit_status>>

VirtTranslate ==
    /\ prog = "Virtual" /\ pc = "translate"
    /\ \E r \in get_physical_address(virtual_address) :
          /\ page_number' = r.page_number
          /\ offset' = r.offset
          /\ table_reads' = table_reads \o r.reads
          /\ out' = out \o r.printed
          /\ physical_address' = r.ret
    /\ pc' = "print_physical"
    /\ UNCHANGED <<prog, stdin, scan_ret, virtual_address, addr, access_time,
                   exit_status>>

VirtPrintPhysical ==
    /\ prog = "Virtual" /\ pc = "print_physical"
    /\ out' = IF PrintsAddress(physical_address)
              THEN Append(out, Line("direccion_fisica", physical_address))
              ELSE out
    /\ pc' = "print_size"
    /\ UNCHANGED <<prog, stdin, scan_ret, virtual_address, addr, access_time,
                   page_number, offset, table_reads, physical_address, exit_status>>

VirtPrintSize ==
    /\ prog = "Virtual" /\ pc = "print_size"
    /\ out' = Append(out, Line("tamano_espacio_virtual", 2 ^ (VIRTUAL_ADDRESS_BITS - 30)))
    /\ pc' = "return"
    /\ UNCHANGED <<prog, stdin, scan_ret, virtual_address, addr, access_time,
                   page_number, offset, table_reads, physical_address, exit_status>>

VirtReturn ==
    /\ prog = "Virtual" /\ pc = "return"
    /\ exit_status' = <<0>>
    /\ pc' = "done"
    /\ UNCHANGED <<prog, stdin, scan_ret, virtual_address, addr, access_time,
                   page_number, offset, table_reads, physical_address, out>>

Next ==
    \/ PagPrompt
    \/ PagScanf
    \/ PagDecompose
    \/ PagPrintFields
    \/ PagAccessTime
    \/ PagReturn
    \/ VirtPrompt
    \/ VirtScanf
    \/ VirtTranslate
    \/ VirtPrintPhysical
    \/ VirtPrintSize
    \/ VirtReturn

Spec == Init /\ [][Next]_vars

\* main runs to its return: no step of either program waits on anything
FairSpec == Spec /\ WF_vars(Next)

(***************************************************************************)
(* Vocabulary of the properties.  The fields of a word are read here bit   *)
(* by bit, not through the shifts and masks of the programs.               *)
(***************************************************************************)
RECURSIVE FieldValue(_, _, _)
\* the number held in the n bits of w that start at bit lo
FieldValue(w, lo, n) ==
    IF n = 0 THEN 0 ELSE w[lo] + 2 * FieldValue(w, lo + 1, n - 1)

\* w with every bit from position n upwards cleared
LowBits(w, n) == [i \in BitPos |-> IF i < n THEN w[i] ELSE 0]

ClaimPage(w) == FieldValue(w, 12, 8)
ClaimOffset(w) == FieldValue(w, 0, 12)
Resident(w) == ClaimPage(w) < 8 /\ page_table[ClaimPage(w) + 1].presence_bit = 1

ErrorTags == {"fuera_de_limites", "en_swap"}
ErrorLines(o) == SelectSeq(o, LAMBDA l : l.line \in ErrorTags)

\* get_physical_address has returned into main
Translated ==
    prog = "Virtual" /\ pc \in {"print_physical", "print_size", "return", "done"}

\* 32-bit words against which a run's translation is compared
ProbeWords ==
    {LowWord(h \o p \o o) :
        h \in {<<>>, <<"0", "5", "0">>, <<"f", "5", "a">>},
        p \in PageTexts, o \in OffsetTexts}

ProbeOutcomes == [w \in ProbeWords |-> get_physical_address(w)]

(***************************************************************************)
(* C1: when the page number (bits 12..19) of the address is below 8 and    *)
(* its table entry is present, get_physical_address returns                *)
(* frame * 4096 + (bits 0..11), page 0 with offset 0x123 gives 0x123, and  *)
(* no error message is printed.                                            *)
(***************************************************************************)
C1_ResidentPageTranslates ==
    (Translated /\ Resident(virtual_address)) =>
        /\ physical_address =
              page_table[ClaimPage(virtual_address) + 1].page_frame * 4096
                  + ClaimOffset(virtual_address)
        /\ (ClaimPage(virtual_address) = 0 /\ ClaimOffset(virtual_address) = 291
              => physical_address = 291)
        /\ ErrorLines(out) = <<>>

C1_Witness ==
    /\ prog = "Virtual" /\ pc = "done" /\ scan_ret = 1
    /\ ClaimPage(virtual_address) = 0
    /\ ClaimOffset(virtual_address) = 291
    /\ physical_address = 291
    /\ out[Len(out) - 1] = Line("direccion_fisica", 291)

(***************************************************************************)
(* C2: the pages of the table whose presence bit is 0 are 1, 6 and 7; for  *)
(* an address on one of them, whatever its offset, the call prints the     *)
(* page-in-swap message and nothing else, returns -1, and main never       *)
(* prints a physical address.                                              *)
(***************************************************************************)
C2_SwappedPageFails ==
    /\ {p \in 0 .. 7 : page_table[p + 1].presence_bit = 0} = {1, 6, 7}
    /\ (Translated /\ ClaimPage(virtual_address) \in {1, 6, 7}) =>
          /\ physical_address = -1
          /\ ErrorLines(out) = <<Line("en_swap", 0)>>
          /\ "direccion_fisica" \notin Lines(out)

C2_Witness ==
    /\ prog = "Virtual" /\ pc = "done" /\ scan_ret = 1
    /\ ClaimPage(virtual_address) = 6
    /\ ClaimOffset(virtual_address) = 4095
    /\ physical_address = -1
    /\ Line("en_swap", 0) \in {out[i] : i \in 1 .. Len(out)}

(***************************************************************************)
(* C3: for an address whose page number is 8 or more the call prints the   *)
(* out-of-range message and nothing else, returns -1, reads no table entry *)
(* and main prints no physical address; and in every run page_table is     *)
(* read at indices 0..7 only.                                              *)
(***************************************************************************)
C3_OutOfRangeFails ==
    /\ \A i \in 1 .. Len(table_reads) : table_reads[i] \in 0 .. 7
    /\ (Translated /\ ClaimPage(virtual_address) >= 8) =>
          /\ physical_address = -1
          /\ ErrorLines(out) = <<Line("fuera_de_limites", 0)>>
          /\ table_reads = <<>>
          /\ "direccion_fisica" \notin Lines(out)

C3_Witness ==
    /\ prog = "Virtual" /\ pc = "done" /\ scan_ret = 1
    /\ ClaimPage(virtual_address) = 8
    /\ physical_address = -1
    /\ table_reads = <<>>
    /\ Line("fuera_de_limites", 0) \in {out[i] : i \in 1 .. Len(out)}

(***************************************************************************)
(* C4: for a scanned input of at most 9 hexadecimal digits (36 bits) the   *)
(* fields of decompose_address are within 12, 8, 8 and 4 bits and          *)
(* offset | lvl3 << 12 | lvl2 << 20 | lvl1 << 28 is the low 32 bits of the *)
(* number typed: bits 32..35 are dropped and change no field.              *)
(***************************************************************************)
C4_Input36 ==
    /\ prog = "PAG" /\ pc \in {"print_fields", "access_time", "return", "done"}
    /\ scan_ret = 1
    /\ Len(MatchedDigits(stdin)) <= 9

C4_DecomposeDropsHighBits ==
    C4_Input36 =>
        /\ addr.offset \in 0 .. 4095
        /\ addr.lvl3_index \in 0 .. 255
        /\ addr.lvl2_index \in 0 .. 255
        /\ addr.lvl1_index \in 0 .. 15
        /\ BitOr(BitOr(NatToWord(addr.offset), Shl(NatToWord(addr.lvl3_index), 12)),
                 BitOr(Shl(NatToWord(addr.lvl2_index), 20),
                       Shl(NatToWord(addr.lvl1_index), 28)))
              = LowWord(MatchedDigits(stdin))

(***************************************************************************)
(* C5: inside get_physical_address page_number is bits 12..19 of the       *)
(* address (0..255) and offset is bits 0..11 (0..4095),                    *)
(* offset | page_number << 12 is the address masked with 0xFFFFF, and      *)
(* every word with the same bits 0..19 has the same outcome.               *)
(***************************************************************************)
C5_LookupUsesLow20Bits ==
    Translated =>
        /\ page_number = ClaimPage(virtual_address)
        /\ offset = ClaimOffset(virtual_address)
        /\ page_number \in 0 .. 255
        /\ offset \in 0 .. 4095
        /\ BitOr(NatToWord(offset), Shl(NatToWord(page_number), 12))
              = LowBits(virtual_address, 20)
        /\ \A w \in ProbeWords :
              LowBits(w, 20) = LowBits(virtual_address, 20) =>
                  \A r \in ProbeOutcomes[w] :
                      /\ r.ret = physical_address
                      /\ r.printed = ErrorLines(out)

C5_Witness ==
    /\ prog = "Virtual" /\ pc = "done" /\ scan_ret = 1
    /\ virtual_address[31] = 1
    /\ page_number = 2
    /\ offset = 291
    /\ physical_address = 9 * 4096 + 291
    /\ \E w \in ProbeWords :
          /\ w # virtual_address
          /\ LowBits(w, 20) = LowBits(virtual_address, 20)

(***************************************************************************)
(* C6: when scanf matches no hexadecimal number the program has, by the    *)
(* time it ends, reported the invalid input and printed neither the        *)
(* decomposed fields nor a physical address.                               *)
(***************************************************************************)
C6_InvalidInputReported ==
    (pc = "done" /\ scan_ret # 1) =>
        /\ "entrada_invalida" \in Lines(out)
        /\ Lines(out) \cap {"nivel1", "nivel2", "nivel3", "offset",
                            "direccion_fisica"} = {}

(***************************************************************************)
(* C7: every run of the translation program reaches its return with exit   *)
(* status 0; at that point the physical-address line has been printed      *)
(* exactly when the page is in range and present, exactly one error        *)
(* message has been printed otherwise (none on success), and the           *)
(* address-space-size line is the last line printed.                       *)
(***************************************************************************)
C7_Finished ==
    (prog = "Virtual" /\ pc = "done") =>
        /\ exit_status = <<0>>
        /\ ("direccion_fisica" \in Lines(out)) <=> Resident(virtual_address)
        /\ Len(ErrorLines(out)) = IF Resident(virtual_address) THEN 0 ELSE 1
        /\ out[Len(out)].line = "tamano_espacio_virtual"
        /\ \A i \in 1 .. (Len(out) - 1) : out[i].line # "tamano_espacio_virtual"

C7_RunEndsWithStatusZero ==
    /\ [](C7_Finished /\ exit_status \in {<<>>, <<0>>})
    /\ (prog = "Virtual") ~> (pc = "done" /\ exit_status = <<0>>)

C7_Witness ==
    /\ prog = "Virtual" /\ pc = "done" /\ exit_status = <<0>>
    /\ ClaimPage(virtual_address) = 255
    /\ Len(out) = 6
    /\ out[5] = Line("fuera_de_limites", 0)
    /\ out[6] = Line("tamano_espacio_virtual", 4)

(***************************************************************************)
(* C8: whatever was typed, calculate_memory_access_time returns 98.2 ns    *)
(* (982 tenths) and that is the time printed.                              *)
(***************************************************************************)
C8_AccessTimeConstant ==
    (prog = "PAG" /\ pc \in {"return", "done"}) =>
        /\ access_time = 982
        /\ out[Len(out)] = Line("tiempo", 982)

C8_Witness ==
    /\ prog = "PAG" /\ pc = "done" /\ scan_ret = 1
    /\ addr.lvl1_index = 15 /\ addr.offset = 291
    /\ access_time = 982

(***************************************************************************)
(* C9: a successful call returns a value in 0 .. 2^21 - 1, so the value    *)
(* returned is -1 exactly when the page is out of range or not present,    *)
(* and main prints the address exactly on success, address 0 included.     *)
(***************************************************************************)
C9_SentinelNeverCollides ==
    Translated =>
        /\ Resident(virtual_address) =>
              physical_address \in 0 .. (2 ^ PHYSICAL_ADDRESS_BITS - 1)
        /\ (physical_address = -1) <=> ~Resident(virtual_address)
        /\ pc # "print_physical" =>
              (Resident(virtual_address) <=>
                  Line("direccion_fisica", physical_address)
                      \in {out[i] : i \in 1 .. Len(out)})

C9_Witness ==
    /\ prog = "Virtual" /\ pc = "done" /\ scan_ret = 1
    /\ Resident(virtual_address)
    /\ physical_address = 0
    /\ out[Len(out) - 1] = Line("direccion_fisica", 0)

(***************************************************************************)
(* C10: the present pages are 0, 2, 3, 4 and 5 with the pairwise distinct  *)
(* frames 0, 9, 14, 3 and 7, and two addresses on present pages that       *)
(* differ in bits 0..19 never translate to the same physical address.      *)
(***************************************************************************)
C10_TranslationInjective ==
    /\ {<<p, page_table[p + 1].page_frame>> :
           p \in {q \in 0 .. 7 : page_table[q + 1].presence_bit = 1}}
          = {<<0, 0>>, <<2, 9>>, <<3, 14>>, <<4, 3>>, <<5, 7>>}
    /\ (Translated /\ Resident(virtual_address)) =>
          \A w \in ProbeWords :
              (Resident(w) /\ LowBits(w, 20) # LowBits(virtual_address, 20)) =>
                  \A r \in ProbeOutcomes[w] : r.ret # physical_address

C10_Witness ==
    /\ prog = "Virtual" /\ pc = "done" /\ scan_ret = 1
    /\ Resident(virtual_address)
    /\ ClaimPage(virtual_address) = 5
    /\ physical_address = 7 * 4096 + 4095
    /\ \E w \in ProbeWords :
          /\ Resident(w)
          /\ ClaimPage(w) = 4
          /\ LowBits(w, 20) # LowBits(virtual_address, 20)

====
